---- MODULE Spec2Model ----
(***************************************************************************)
(* make_manifest.py: the FileLock marker-file lock, the manifest builder   *)
(* (make_entries / make_manifest) and the create/update entry point, run   *)
(* by several operating-system processes on one parcel directory.          *)
(***************************************************************************)
EXTENDS Integers, Sequences, FiniteSets, TLC

\* ------------------------------------------------------------------ bounds
NumProcs == 2        \* contending processes, each one invocation of the program
MaxNames == 1        \* file names given on one command line
StartWindow == 1     \* processes start at clock values 0..StartWindow
Timeout == 1         \* FileLock.timeout, in clock units
Delay == 1           \* FileLock.delay, in clock units
\* The clock stops once every acquire() that started has had time to time out:
\* the last sleep begins before StartWindow + Timeout.
MaxTime == StartWindow + Timeout + Delay - 1

Procs == 1..NumProcs
NoProc == NumProcs + 1   \* the owner of no marker file: a value that is no process

\* --------------------------------------------------------- parcel directory
\* File names that may be given on the command line or found in the directory.
FileA == "A-1-el6.parcel"
FileB == "B-1-el6.parcel"
FileN == "N-1-el6.parcel"
\* A bundle file whose name holds one hyphen only.
FileX == "X-el6.parcel"
\* Further bundle files of a caller of make_manifest: FileC holds a parcel.json,
\* FileJ holds one that is not JSON.
FileC == "C-1-el6.parcel"
FileJ == "J-1-el6.parcel"
\* A parcel that an existing manifest.json lists and the directory no longer holds.
FileOld == "O-1-el6.parcel"
\* What the archive holds at <dirname>/meta/parcel.json.
Meta(f) == IF f = FileN THEN "absent" ELSE IF f = FileJ THEN "garbage" ELSE "json"

VARIABLES
  now,            \* time.time()
  dir,            \* the bundle files of the directory (os.listdir, names ending in .parcel)
  lockfile,       \* TRUE iff the marker file manifest.json.lock exists
  owner,          \* the process whose os.open created the marker file (history)
  manifest_file,  \* content of manifest.json
  pc,             \* each process's position
  cmd,            \* sys.argv: 'create' or 'update'
  fnames,         \* sys.argv: the named files
  timestamp,      \* make_manifest's default timestamp argument
  start_time,     \* acquire's start_time
  wake,           \* when time.sleep(delay) returns
  is_locked,      \* FileLock.is_locked
  fd,             \* FileLock.fd
  manifest,       \* __main__'s manifest variable
  outcome,        \* how the process ended
  snapshot,       \* manifest.json as it was when the process created the marker (history)
  parcel_name,    \* _get_parcel_dirname's argument, when the function is called on its own
  dirname         \* what that call returned or raised

vars == <<now, dir, lockfile, owner, manifest_file, pc, cmd, fnames, timestamp,
          start_time, wake, is_locked, fd, manifest, outcome, snapshot,
          parcel_name, dirname>>
namevars == <<parcel_name, dirname>>
lockvars == <<lockfile, owner, is_locked, fd>>
argvars == <<cmd, fnames, timestamp>>

\* ------------------------------------------------------------------ values
\* Python's None / a missing file / a file cut short by a failed write.
None == [kind |-> "none", parcels |-> <<>>, lastUpdated |-> 0]
Absent == [kind |-> "absent", parcels |-> <<>>, lastUpdated |-> 0]
Torn == [kind |-> "torn", parcels |-> <<>>, lastUpdated |-> 0]
Dict(ps, lu) == [kind |-> "dict", parcels |-> ps, lastUpdated |-> lu]

\* json.dumps of a manifest dict: the text of manifest.json.
dumps(m) == [kind |-> "text", parcels |-> m.parcels, lastUpdated |-> m.lastUpdated]
\* json.load of that text.
loads(t) == [kind |-> "dict", parcels |-> t.parcels, lastUpdated |-> t.lastUpdated]

\* A Python number of seconds (a float) is kept as a whole number of ticks,
\* TicksPerMs ticks to the millisecond, so that it can carry a fraction of a
\* millisecond.
TicksPerMs == 2
\* time.time() when the clock reads t.
Seconds(t) == t * 1000 * TicksPerMs
\* Faulty variant: rounding toward minus infinity.
int_floor(n, d) == n \div d
\* int(x) for x = n / d: truncation toward zero.
int(n, d) == IF n >= 0 THEN n \div d ELSE -((-n) \div d)

\* hashlib.sha1(fp.read()).hexdigest(): one digest per file content.
sha1(f) == <<"sha1", f>>
Entry(f) == [parcelName |-> f, hash |-> sha1(f)]

\* All sequences over S of length at most n.
SeqsUpTo(S, n) == UNION {[1..k -> S] : k \in 0..n}
\* All orders in which os.listdir may return the set S.
Perms(S) == {s \in [1..Cardinality(S) -> S] : \A i, j \in 1..Cardinality(S) : i # j => s[i] # s[j]}

\* os.listdir(path), filtered by the .parcel suffix: the files in any order.
Listings(path) == Perms(path)

\* ---------------------------------------------------- _get_parcel_dirname
\* The positions of the hyphens of a string.
Hyphens(s) == {i \in 1..Len(s) : SubSeq(s, i, i) = "-"}
Min(S) == CHOOSE i \in S : \A j \in S : i <= j
Max(S) == CHOOSE i \in S : \A j \in S : i >= j

\* Faulty variant: the pattern ^(.*?)-(.*?)-(.*)$, whose second group is lazy.
re_match_lazy(s) ==
  LET splits == {ij \in Hyphens(s) \X Hyphens(s) : ij[1] < ij[2]}
  IN IF splits = {} THEN [matched |-> FALSE, groups |-> <<>>]
     ELSE LET i == Min({ij[1] : ij \in splits})
              j == Min({ij[2] : ij \in {x \in splits : x[1] = i}})
          IN [matched |-> TRUE,
              groups |-> <<SubSeq(s, 1, i - 1), SubSeq(s, i + 1, j - 1), SubSeq(s, j + 1, Len(s))>>]

\* re.match(r"^(.*?)-(.*)-(.*?)$", s) for s without line breaks. A match splits
\* s at two hyphens; the engine tries the shortest first group first (lazy),
\* for it the longest second group first (greedy); the third group is the rest.
re_match(s) ==
  LET splits == {ij \in Hyphens(s) \X Hyphens(s) : ij[1] < ij[2]}
  IN IF splits = {} THEN [matched |-> FALSE, groups |-> <<>>]
     ELSE LET i == Min({ij[1] : ij \in splits})
              j == Max({ij[2] : ij \in {x \in splits : x[1] = i}})
          IN [matched |-> TRUE,
              groups |-> <<SubSeq(s, 1, i - 1), SubSeq(s, i + 1, j - 1), SubSeq(s, j + 1, Len(s))>>]

\* What a call of _get_parcel_dirname gives: nothing yet, a string, or the
\* AttributeError of None.groups().
NoCall == [state |-> "none", value |-> ""]
Returned(v) == [state |-> "returned", value |-> v]
Raised == [state |-> "raised", value |-> ""]

\* parts = re.match(...).groups(); return parts[0] + '-' + parts[1]
_get_parcel_dirname(name) ==
  LET m == re_match(name)
  IN IF m.matched THEN Returned(m.groups[1] \o "-" \o m.groups[2]) ELSE Raised

\* ----------------------------------------------------------- make_entries
\* Faulty variant: a bundle without a parsable parcel.json ends the scan, and the
\* entries gathered so far are returned.
RECURSIVE make_entries_stop(_, _)
make_entries_stop(path, files) ==
  IF files = <<>> THEN [err |-> FALSE, entries |-> <<>>]
  ELSE LET f == Head(files)
           rest == make_entries_stop(path, Tail(files))
       IN IF f \notin path THEN [err |-> TRUE, entries |-> <<>>]
          ELSE IF _get_parcel_dirname(f) = Raised THEN [err |-> TRUE, entries |-> <<>>]
          ELSE IF Meta(f) # "json" THEN [err |-> FALSE, entries |-> <<>>]
          ELSE IF rest.err THEN rest
          ELSE [err |-> FALSE, entries |-> <<Entry(f)>> \o rest.entries]

\* Faulty variant: a name the pattern does not match is skipped like a bundle
\* without parcel.json.
RECURSIVE make_entries_lenient(_, _)
make_entries_lenient(path, files) ==
  IF files = <<>> THEN [err |-> FALSE, entries |-> <<>>]
  ELSE LET f == Head(files)
           rest == make_entries_lenient(path, Tail(files))
       IN IF f \notin path THEN [err |-> TRUE, entries |-> <<>>]
          ELSE IF rest.err THEN rest
          ELSE IF _get_parcel_dirname(f) = Raised \/ Meta(f) # "json" THEN rest
          ELSE [err |-> FALSE, entries |-> <<Entry(f)>> \o rest.entries]

\* path: the set of files of the directory; a named file that is not there
\* cannot be opened, and the error ends the scan. So does the AttributeError of
\* _get_parcel_dirname, which no except clause of the loop catches. A bundle
\* whose parcel.json is missing or does not parse is skipped.
RECURSIVE make_entries(_, _)
make_entries(path, files) ==
  IF files = <<>> THEN [err |-> FALSE, entries |-> <<>>]
  ELSE LET f == Head(files)
           rest == make_entries(path, Tail(files))
       IN IF f \notin path THEN [err |-> TRUE, entries |-> <<>>]
          ELSE IF _get_parcel_dirname(f) = Raised THEN [err |-> TRUE, entries |-> <<>>]
          ELSE IF rest.err THEN rest
          ELSE IF Meta(f) # "json" THEN rest
          ELSE [err |-> FALSE, entries |-> <<Entry(f)>> \o rest.entries]

\* ----------------------------------------------------------- make_manifest
\* Faulty variant: the new entries are put in front of the existing ones.
make_manifest_prepend(path, ts, files, m, listing) ==
  LET m0 == IF m.kind = "none" THEN Dict(<<>>, 0) ELSE m
      fs == IF files = <<>> THEN listing ELSE files
      r == make_entries(path, fs)
  IN IF r.err THEN [err |-> TRUE, doc |-> None]
     ELSE [err |-> FALSE, doc |-> Dict(r.entries \o m0.parcels, int(ts, TicksPerMs))]

\* ts is the timestamp in ticks: timestamp * 1000 is ts / TicksPerMs.
make_manifest(path, ts, files, m, listing) ==
  LET m0 == IF m.kind = "none" THEN Dict(<<>>, 0) ELSE m
      fs == IF files = <<>> THEN listing ELSE files
      r == make_entries(path, fs)
  IN IF r.err THEN [err |-> TRUE, doc |-> None]
     ELSE [err |-> FALSE, doc |-> Dict(m0.parcels \o r.entries, int(ts, TicksPerMs))]

\* ------------------------------------------------------------------- Init
InitManifests == {Absent, dumps(Dict(<<Entry(FileOld)>>, 0))}

InitWith(d) ==
  /\ now = 0
  /\ dir = d
  /\ lockfile = FALSE
  /\ owner = NoProc
  /\ manifest_file \in InitManifests
  /\ pc = [p \in Procs |-> "idle"]
  /\ cmd = [p \in Procs |-> "none"]
  /\ fnames = [p \in Procs |-> <<>>]
  /\ timestamp = [p \in Procs |-> 0]
  /\ start_time = [p \in Procs |-> 0]
  /\ wake = [p \in Procs |-> 0]
  /\ is_locked = [p \in Procs |-> FALSE]
  /\ fd = [p \in Procs |-> "None"]
  /\ manifest = [p \in Procs |-> None]
  /\ outcome = [p \in Procs |-> "running"]
  /\ snapshot = [p \in Procs |-> Absent]
  /\ parcel_name = ""
  /\ dirname = NoCall

Init == InitWith({FileA, FileN})

\* ---------------------------------------------------------------- FileLock
\* Faulty variant: release() that tests the marker file's existence, not is_locked.
release_if_exists(p) ==
  IF lockfile
  THEN /\ fd' = [fd EXCEPT ![p] = "closed"]
       /\ lockfile' = FALSE
       /\ owner' = NoProc
       /\ is_locked' = [is_locked EXCEPT ![p] = FALSE]
  ELSE UNCHANGED lockvars

\* Faulty variant: release() that forgets to clear is_locked.
release_keeps_flag(p) ==
  IF is_locked[p]
  THEN /\ fd' = [fd EXCEPT ![p] = "closed"]
       /\ lockfile' = FALSE
       /\ owner' = NoProc
       /\ UNCHANGED is_locked
  ELSE UNCHANGED lockvars

\* release(): close and unlink the marker file if this instance holds the lock.
release(p) ==
  IF is_locked[p]
  THEN /\ fd' = [fd EXCEPT ![p] = "closed"]
       /\ lockfile' = FALSE
       /\ owner' = NoProc
       /\ is_locked' = [is_locked EXCEPT ![p] = FALSE]
  ELSE UNCHANGED lockvars

\* The process starts: module load evaluates make_manifest's default timestamp,
\* __main__ builds the FileLock and enters acquire(). The command line (cmd,
\* fnames) is an input nothing reads before the with block does: the model draws
\* it where the block first reads it. The processes run the same program, so
\* they are numbered in the order in which they start.
Start(p) ==
  /\ pc[p] = "idle"
  /\ \A q \in Procs : q < p => pc[q] # "idle"
  /\ now <= StartWindow
  /\ timestamp' = [timestamp EXCEPT ![p] = Seconds(now)]
  /\ start_time' = [start_time EXCEPT ![p] = now]
  /\ pc' = [pc EXCEPT ![p] = "open"]
  /\ UNCHANGED <<now, dir, namevars, lockvars, manifest_file, cmd, fnames, wake, manifest, outcome, snapshot>>

\* Faulty variant: os.open without O_EXCL: an existing marker file is opened, not refused.
acquire_open_noexcl(p) ==
  /\ pc[p] = "open"
  /\ lockfile' = TRUE
  /\ owner' = IF lockfile THEN owner ELSE p
  /\ fd' = [fd EXCEPT ![p] = "open"]
  /\ is_locked' = [is_locked EXCEPT ![p] = TRUE]
  /\ snapshot' = [snapshot EXCEPT ![p] = manifest_file]
  /\ start_time' = [start_time EXCEPT ![p] = 0]
  /\ pc' = [pc EXCEPT ![p] = "body"]
  /\ UNCHANGED <<now, dir, namevars, manifest_file, argvars, wake, manifest, outcome>>

\* acquire(): os.open(lockfile, O_CREAT | O_EXCL | O_RDWR).
acquire_open(p) ==
  /\ pc[p] = "open"
  /\ IF lockfile
     THEN \* EEXIST
          /\ pc' = [pc EXCEPT ![p] = "check"]
          /\ UNCHANGED <<lockvars, snapshot, start_time>>
     ELSE /\ lockfile' = TRUE
          /\ owner' = p
          /\ fd' = [fd EXCEPT ![p] = "open"]
          /\ is_locked' = [is_locked EXCEPT ![p] = TRUE]
          /\ snapshot' = [snapshot EXCEPT ![p] = manifest_file]
          /\ start_time' = [start_time EXCEPT ![p] = 0]
          /\ pc' = [pc EXCEPT ![p] = "body"]
  /\ UNCHANGED <<now, dir, namevars, manifest_file, argvars, wake, manifest, outcome>>

\* acquire(): os.open fails with an errno other than EEXIST: re-raised at once.
acquire_oserror(p) ==
  /\ pc[p] = "open"
  /\ ~lockfile
  /\ outcome' = [outcome EXCEPT ![p] = "OSError"]
  /\ start_time' = [start_time EXCEPT ![p] = 0]
  /\ pc' = [pc EXCEPT ![p] = "del"]
  /\ UNCHANGED <<now, dir, namevars, lockvars, manifest_file, argvars, wake, manifest, snapshot>>

\* Faulty variant: on timeout acquire() returns without the lock instead of raising.
acquire_check_silent(p) ==
  /\ pc[p] = "check"
  /\ IF now - start_time[p] >= Timeout
     THEN /\ snapshot' = [snapshot EXCEPT ![p] = manifest_file]
          /\ start_time' = [start_time EXCEPT ![p] = 0]
          /\ pc' = [pc EXCEPT ![p] = "body"]
          /\ UNCHANGED wake
     ELSE /\ wake' = [wake EXCEPT ![p] = now + Delay]
          /\ pc' = [pc EXCEPT ![p] = "sleep"]
          /\ UNCHANGED <<snapshot, start_time>>
  /\ UNCHANGED <<now, dir, namevars, lockvars, manifest_file, argvars, manifest, outcome>>

\* Faulty variant: on timeout the marker file is taken for stale: unlinked, and the loop retries.
acquire_check_stale(p) ==
  /\ pc[p] = "check"
  /\ IF now - start_time[p] >= Timeout
     THEN /\ lockfile' = FALSE
          /\ owner' = NoProc
          /\ pc' = [pc EXCEPT ![p] = "open"]
          /\ UNCHANGED <<wake, is_locked, fd>>
     ELSE /\ wake' = [wake EXCEPT ![p] = now + Delay]
          /\ pc' = [pc EXCEPT ![p] = "sleep"]
          /\ UNCHANGED lockvars
  /\ UNCHANGED <<now, dir, namevars, manifest_file, argvars, start_time, manifest, outcome, snapshot>>

\* Faulty variant: no timeout test: after EEXIST the loop always sleeps and retries.
acquire_check_forever(p) ==
  /\ pc[p] = "check"
  /\ wake' = [wake EXCEPT ![p] = now + Delay]
  /\ pc' = [pc EXCEPT ![p] = "sleep"]
  /\ UNCHANGED <<outcome, start_time>>
  /\ UNCHANGED <<now, dir, namevars, lockvars, manifest_file, argvars, manifest, snapshot>>

\* acquire(): after EEXIST, the timeout test, then time.sleep(delay).
acquire_check(p) ==
  /\ pc[p] = "check"
  /\ IF now - start_time[p] >= Timeout
     THEN /\ outcome' = [outcome EXCEPT ![p] = "FileLockException"]
          /\ start_time' = [start_time EXCEPT ![p] = 0]
          /\ pc' = [pc EXCEPT ![p] = "del"]
          /\ UNCHANGED wake
     ELSE /\ wake' = [wake EXCEPT ![p] = now + Delay]
          /\ pc' = [pc EXCEPT ![p] = "sleep"]
          /\ UNCHANGED <<outcome, start_time>>
  /\ UNCHANGED <<now, dir, namevars, lockvars, manifest_file, argvars, manifest, snapshot>>

\* acquire(): time.sleep(delay) returns, the loop tries again.
acquire_wake(p) ==
  /\ pc[p] = "sleep"
  /\ now >= wake[p]
  /\ wake' = [wake EXCEPT ![p] = 0]
  /\ pc' = [pc EXCEPT ![p] = "open"]
  /\ UNCHANGED <<now, dir, namevars, lockvars, manifest_file, argvars, start_time, manifest, outcome, snapshot>>

\* The with block is left and the script is over: the variables of __main__ and
\* of the calls it made are dead.
Forget(p) ==
  /\ cmd' = [cmd EXCEPT ![p] = "none"]
  /\ fnames' = [fnames EXCEPT ![p] = <<>>]
  /\ timestamp' = [timestamp EXCEPT ![p] = 0]
  /\ start_time' = [start_time EXCEPT ![p] = 0]
  /\ wake' = [wake EXCEPT ![p] = 0]
  /\ manifest' = [manifest EXCEPT ![p] = None]
  /\ snapshot' = [snapshot EXCEPT ![p] = Absent]

\* Faulty variant: no scoped release: release() is only reached when the block ends normally.
Exit_unscoped(p) ==
  /\ pc[p] = "exit"
  /\ IF outcome[p] = "ok" THEN release(p) ELSE UNCHANGED lockvars
  /\ pc' = [pc EXCEPT ![p] = "del"]
  /\ Forget(p)
  /\ UNCHANGED <<now, dir, namevars, manifest_file, outcome>>

\* __exit__: leaving the with block, normally or by an exception.
Exit(p) ==
  /\ pc[p] = "exit"
  /\ release(p)
  /\ pc' = [pc EXCEPT ![p] = "del"]
  /\ Forget(p)
  /\ UNCHANGED <<now, dir, namevars, manifest_file, outcome>>

\* __del__: the FileLock object is destroyed.
Del(p) ==
  /\ pc[p] = "del"
  /\ release(p)
  /\ pc' = [pc EXCEPT ![p] = "end"]
  /\ Forget(p)
  /\ UNCHANGED <<now, dir, namevars, manifest_file, outcome>>

\* --------------------------------------------------------------- __main__
\* The body of the with block is over: what it computed is dead.
EndBody(p) ==
  /\ fnames' = [fnames EXCEPT ![p] = <<>>]
  /\ timestamp' = [timestamp EXCEPT ![p] = 0]
  /\ manifest' = [manifest EXCEPT ![p] = None]
  /\ snapshot' = [snapshot EXCEPT ![p] = Absent]

\* An exception leaves the with block.
Raise(p, e) ==
  /\ outcome' = [outcome EXCEPT ![p] = e]
  /\ pc' = [pc EXCEPT ![p] = "exit"]
  /\ EndBody(p)

\* make_manifest raises while scanning the names fs: the exception leaves the
\* with block; fnames is what the scan was given.
RaiseInScan(p, fs) ==
  /\ outcome' = [outcome EXCEPT ![p] = "ScanError"]
  /\ pc' = [pc EXCEPT ![p] = "exit"]
  /\ fnames' = [fnames EXCEPT ![p] = fs]
  /\ timestamp' = [timestamp EXCEPT ![p] = 0]
  /\ manifest' = [manifest EXCEPT ![p] = None]
  /\ snapshot' = [snapshot EXCEPT ![p] = Absent]

\* The names that may be given on a command line: the bundle files of the
\* directory, and FileB, which may not be there.
Nameable == dir \cup {FileB}

\* Faulty variant: update of a directory without manifest.json starts from an empty manifest.
body_begin_lenient(p) ==
  /\ pc[p] = "body"
  /\ \E c \in {"create", "update"} :
       /\ cmd' = [cmd EXCEPT ![p] = c]
       /\ IF c = "create" \/ manifest_file.kind = "absent"
          THEN /\ pc' = [pc EXCEPT ![p] = "build"]
               /\ UNCHANGED <<outcome, manifest, fnames, timestamp, snapshot>>
          ELSE IF manifest_file.kind = "text"
               THEN /\ manifest' = [manifest EXCEPT ![p] = loads(manifest_file)]
                    /\ pc' = [pc EXCEPT ![p] = "build"]
                    /\ UNCHANGED <<outcome, fnames, timestamp, snapshot>>
               ELSE Raise(p, "LoadError")
  /\ UNCHANGED <<now, dir, namevars, lockvars, manifest_file, start_time, wake>>

\* Faulty variant: create loads manifest.json when there is one, as update does.
body_begin_create_merges(p) ==
  /\ pc[p] = "body"
  /\ \E c \in {"create", "update"} :
       /\ cmd' = [cmd EXCEPT ![p] = c]
       /\ IF manifest_file.kind = "absent"
          THEN IF c = "create"
               THEN /\ pc' = [pc EXCEPT ![p] = "build"]
                    /\ UNCHANGED <<outcome, manifest, fnames, timestamp, snapshot>>
               ELSE Raise(p, "ValueError")
          ELSE IF manifest_file.kind = "text"
               THEN /\ manifest' = [manifest EXCEPT ![p] = loads(manifest_file)]
                    /\ pc' = [pc EXCEPT ![p] = "build"]
                    /\ UNCHANGED <<outcome, fnames, timestamp, snapshot>>
               ELSE Raise(p, "LoadError")
  /\ UNCHANGED <<now, dir, namevars, lockvars, manifest_file, start_time, wake>>

\* The head of the with block: create starts from None; update requires
\* manifest.json to exist, opens it and json.loads it.
body_begin(p) ==
  /\ pc[p] = "body"
  /\ \E c \in {"create", "update"} :
       /\ cmd' = [cmd EXCEPT ![p] = c]
       /\ IF c = "create"
          THEN /\ pc' = [pc EXCEPT ![p] = "build"]
               /\ UNCHANGED <<outcome, manifest, fnames, timestamp, snapshot>>
          ELSE IF manifest_file.kind = "absent"
               THEN Raise(p, "ValueError")
               ELSE IF manifest_file.kind = "text"
               THEN /\ manifest' = [manifest EXCEPT ![p] = loads(manifest_file)]
                    /\ pc' = [pc EXCEPT ![p] = "build"]
                    /\ UNCHANGED <<outcome, fnames, timestamp, snapshot>>
               ELSE Raise(p, "LoadError")
  /\ UNCHANGED <<now, dir, namevars, lockvars, manifest_file, start_time, wake>>

\* update: manifest.json exists but cannot be opened for reading.
body_load_unreadable(p) ==
  /\ pc[p] = "body"
  /\ manifest_file.kind # "absent"
  /\ cmd' = [cmd EXCEPT ![p] = "update"]
  /\ Raise(p, "LoadError")
  /\ UNCHANGED <<now, dir, namevars, lockvars, manifest_file, start_time, wake>>

\* Faulty variant: manifest.json is opened for writing before the scan, so a
\* scan that fails leaves it cut short.
body_build_eager(p) ==
  /\ pc[p] = "build"
  /\ \E fs \in SeqsUpTo(Nameable, MaxNames) :
     \E listing \in (IF fs = <<>> THEN Listings(dir) ELSE {<<>>}) :
       LET r == make_manifest(dir, timestamp[p], fs, manifest[p], listing)
       IN IF r.err
          THEN /\ manifest_file' = Torn
               /\ RaiseInScan(p, fs)
          ELSE /\ fnames' = [fnames EXCEPT ![p] = fs]
               /\ manifest' = [manifest EXCEPT ![p] = dumps(r.doc)]
               /\ pc' = [pc EXCEPT ![p] = "write"]
               /\ UNCHANGED <<manifest_file, outcome, timestamp, snapshot>>
  /\ UNCHANGED <<now, dir, namevars, lockvars, cmd, start_time, wake>>

\* manifest = make_manifest(path, files=fnames, manifest=manifest)
body_build(p) ==
  /\ pc[p] = "build"
  /\ \E fs \in SeqsUpTo(Nameable, MaxNames) :
     \E listing \in (IF fs = <<>> THEN Listings(dir) ELSE {<<>>}) :  \* listdir runs only if not files
       LET r == make_manifest(dir, timestamp[p], fs, manifest[p], listing)
       IN IF r.err
          THEN RaiseInScan(p, fs)
          ELSE /\ fnames' = [fnames EXCEPT ![p] = fs]
               /\ manifest' = [manifest EXCEPT ![p] = dumps(r.doc)]
               /\ pc' = [pc EXCEPT ![p] = "write"]
               /\ UNCHANGED <<outcome, timestamp, snapshot>>
  /\ UNCHANGED <<now, dir, namevars, lockvars, manifest_file, cmd, start_time, wake>>

\* open(path_to_manifest, 'w') and fp.write(manifest): the last statement of the block.
body_write(p) ==
  /\ pc[p] = "write"
  /\ manifest_file' = manifest[p]
  /\ outcome' = [outcome EXCEPT ![p] = "ok"]
  /\ pc' = [pc EXCEPT ![p] = "exit"]
  /\ EndBody(p)
  /\ UNCHANGED <<now, dir, namevars, lockvars, cmd, start_time, wake>>

\* The write fails: open() fails (file untouched) or the file is left truncated.
body_write_fails(p) ==
  /\ pc[p] = "write"
  /\ \/ UNCHANGED manifest_file
     \/ manifest_file' = Torn
  /\ Raise(p, "WriteError")
  /\ UNCHANGED <<now, dir, namevars, lockvars, cmd, start_time, wake>>

\* The process is killed while it holds the lock: nothing of it runs any more.
Crash(p) ==
  /\ is_locked[p]
  /\ pc[p] \in {"body", "build", "write", "exit"}
  /\ outcome' = [outcome EXCEPT ![p] = "crashed"]
  /\ pc' = [pc EXCEPT ![p] = "crashed"]
  /\ Forget(p)
  /\ UNCHANGED <<now, dir, namevars, lockvars, manifest_file>>

\* Time passes, as long as some process can still read the clock: one that has
\* yet to start, or one inside acquire().
Tick ==
  /\ now < MaxTime
  /\ \/ \E p \in Procs : pc[p] \in {"open", "check", "sleep"}
     \/ now <= StartWindow /\ \E p \in Procs : pc[p] \in {"idle", "body", "del"}
  /\ now' = now + 1
  /\ UNCHANGED <<dir, namevars, lockvars, manifest_file, pc, argvars, start_time, wake, manifest, outcome, snapshot>>

Step(p) ==
  \/ Start(p)
  \/ acquire_open(p)
  \/ acquire_oserror(p)
  \/ acquire_check(p)
  \/ acquire_wake(p)
  \/ body_begin(p)
  \/ body_load_unreadable(p)
  \/ body_build(p)
  \/ body_write(p)
  \/ body_write_fails(p)
  \/ Exit(p)
  \/ Del(p)
  \/ Crash(p)

Next == Tick \/ \E p \in Procs : Step(p)

Spec == Init /\ [][Next]_vars

\* The same program on a directory that holds a bundle file whose name has fewer
\* than two hyphens.
BadNameInit == InitWith({FileA, FileX})

SpecBadName == BadNameInit /\ [][Next]_vars

\* ------------------------------------------------- FileLock used on its own
\* Instances of FileLock whose owner calls acquire, release, __enter__,
\* __exit__ and __del__ in any order. "idle", "body" (after a successful
\* acquire) and "del" (after a call that raised or __exit__) are the positions
\* where the owner makes its next call.
ClientReady == {"idle", "body", "del"}

call_acquire(p) ==
  /\ pc[p] \in ClientReady
  /\ now <= StartWindow
  /\ start_time' = [start_time EXCEPT ![p] = now]
  /\ outcome' = [outcome EXCEPT ![p] = "running"]
  /\ pc' = [pc EXCEPT ![p] = "open"]
  /\ UNCHANGED <<now, dir, namevars, lockvars, manifest_file, argvars, wake, manifest, snapshot>>

\* __enter__: acquire() unless is_locked.
call_enter(p) ==
  /\ pc[p] \in ClientReady
  /\ ~is_locked[p]
  /\ now <= StartWindow
  /\ start_time' = [start_time EXCEPT ![p] = now]
  /\ outcome' = [outcome EXCEPT ![p] = "running"]
  /\ pc' = [pc EXCEPT ![p] = "open"]
  /\ UNCHANGED <<now, dir, namevars, lockvars, manifest_file, argvars, wake, manifest, snapshot>>

\* The owner leaves a with block: __exit__ runs next.
call_exit(p) ==
  /\ pc[p] \in ClientReady
  /\ pc' = [pc EXCEPT ![p] = "exit"]
  /\ UNCHANGED <<now, dir, namevars, lockvars, manifest_file, argvars, start_time, wake, manifest, outcome, snapshot>>

\* The owner calls release().
call_release(p) ==
  /\ pc[p] \in ClientReady
  /\ pc' = [pc EXCEPT ![p] = "release"]
  /\ UNCHANGED <<now, dir, namevars, lockvars, manifest_file, argvars, start_time, wake, manifest, outcome, snapshot>>

\* release() runs and returns.
do_release(p) ==
  /\ pc[p] = "release"
  /\ release(p)
  /\ pc' = [pc EXCEPT ![p] = "idle"]
  /\ UNCHANGED <<now, dir, namevars, manifest_file, argvars, start_time, wake, manifest, outcome, snapshot>>

\* The owner drops its last reference: __del__ runs next.
call_del(p) ==
  /\ pc[p] \in {"idle", "body"}
  /\ pc' = [pc EXCEPT ![p] = "del"]
  /\ UNCHANGED <<now, dir, namevars, lockvars, manifest_file, argvars, start_time, wake, manifest, outcome, snapshot>>

LockStep(p) ==
  \/ call_acquire(p)
  \/ call_enter(p)
  \/ acquire_open(p)
  \/ acquire_oserror(p)
  \/ acquire_check(p)
  \/ acquire_wake(p)
  \/ call_exit(p)
  \/ Exit(p)
  \/ call_release(p)
  \/ do_release(p)
  \/ call_del(p)
  \/ Del(p)
  \/ Crash(p)

LockNext == Tick \/ \E p \in Procs : LockStep(p)

LockInit == Init /\ manifest_file = Absent

SpecLock == LockInit /\ [][LockNext]_vars

\* Instances whose owners call acquire() and release() directly, in any order
\* (__enter__ comes down to acquire(), __exit__ and __del__ to release()), and
\* may be killed while they hold the lock.
AcquireStep(p) ==
  \/ call_acquire(p)
  \/ acquire_open(p)
  \/ acquire_oserror(p)
  \/ acquire_check(p)
  \/ acquire_wake(p)
  \/ call_release(p)
  \/ do_release(p)
  \/ Crash(p)

AcquireNext == Tick \/ \E p \in Procs : AcquireStep(p)

\* Time advances and every process inside acquire() runs on: the clock ticks,
\* and the loop of acquire() takes its next step.
LockFairness ==
  /\ WF_vars(Tick)
  /\ \A p \in Procs : WF_vars(acquire_open(p)) /\ WF_vars(acquire_check(p)) /\ WF_vars(acquire_wake(p))

SpecLockFair == LockInit /\ [][AcquireNext]_vars /\ LockFairness

\* ------------------------------------------------ make_manifest on its own
\* One process stands at the call of make_manifest, inside the with block, with
\* any existing manifest of at most MaxParcels entries (None for create).
MaxParcels == 2
\* The timestamps supplied: whole seconds, and up to MaxTicks ticks either side of 0.
MaxTicks == 3
Stamps == {Seconds(t) : t \in 0..1} \cup (-MaxTicks..MaxTicks)

BuildInputs ==
  {None} \cup {Dict(ps, lu) : ps \in SeqsUpTo({Entry(f) : f \in {FileOld, FileA, FileB}}, MaxParcels),
                             lu \in {0, 1000}}

BuildInit ==
  /\ now \in 0..1
  /\ dir \in {{FileA, FileN}, {FileA, FileB, FileN}}
  /\ lockfile = TRUE
  /\ owner = 1
  /\ manifest \in {[p \in Procs |-> IF p = 1 THEN m ELSE None] : m \in BuildInputs}
  /\ manifest_file = IF manifest[1].kind = "none" THEN Absent ELSE dumps(manifest[1])
  /\ pc = [p \in Procs |-> IF p = 1 THEN "build" ELSE "idle"]
  /\ cmd = [p \in Procs |-> IF p # 1 THEN "none"
                             ELSE IF manifest[1].kind = "none" THEN "create" ELSE "update"]
  /\ fnames = [p \in Procs |-> <<>>]
  /\ timestamp \in {[p \in Procs |-> IF p = 1 THEN t ELSE 0] : t \in Stamps}
  /\ start_time = [p \in Procs |-> 0]
  /\ wake = [p \in Procs |-> 0]
  /\ is_locked = [p \in Procs |-> p = 1]
  /\ fd = [p \in Procs |-> IF p = 1 THEN "open" ELSE "None"]
  /\ outcome = [p \in Procs |-> "running"]
  /\ snapshot = [p \in Procs |-> IF p = 1 THEN manifest_file ELSE Absent]
  /\ parcel_name = ""
  /\ dirname = NoCall

BuildNext == \E p \in Procs : body_build(p)

SpecBuild == BuildInit /\ [][BuildNext]_vars

\* --------------------------------------------- _get_parcel_dirname on its own
\* The function applied to every string of at most MaxLen characters.
MaxLen == 7
Alphabet == {"a", "b", "-"}
RECURSIVE Names(_)
Names(n) == IF n = 0 THEN {""} ELSE Names(n - 1) \cup {s \o c : s \in Names(n - 1), c \in Alphabet}

call_get_parcel_dirname ==
  /\ dirname = NoCall
  /\ dirname' = _get_parcel_dirname(parcel_name)
  /\ UNCHANGED <<now, dir, parcel_name, lockvars, manifest_file, pc, argvars, start_time, wake,
                 manifest, outcome, snapshot>>

NameInit ==
  /\ now = 0
  /\ dir = {}
  /\ lockfile = FALSE
  /\ owner = NoProc
  /\ manifest_file = Absent
  /\ pc = [p \in Procs |-> "idle"]
  /\ cmd = [p \in Procs |-> "none"]
  /\ fnames = [p \in Procs |-> <<>>]
  /\ timestamp = [p \in Procs |-> 0]
  /\ start_time = [p \in Procs |-> 0]
  /\ wake = [p \in Procs |-> 0]
  /\ is_locked = [p \in Procs |-> FALSE]
  /\ fd = [p \in Procs |-> "None"]
  /\ manifest = [p \in Procs |-> None]
  /\ outcome = [p \in Procs |-> "running"]
  /\ snapshot = [p \in Procs |-> Absent]
  /\ parcel_name \in Names(MaxLen)
  /\ dirname = NoCall

NameNext == call_get_parcel_dirname

SpecName == NameInit /\ [][NameNext]_vars

\* ------------------------------------------- make_manifest called repeatedly
\* A caller in the manner of test_manifest.py: it calls make_manifest with a
\* list of names and a timestamp, passing in json.loads of the manifest it got
\* from its previous call (None at first).
MaxCallNames == 2
TestDir == {FileA, FileB, FileC, FileN, FileJ}
CallStamps == {0, Seconds(1000000)}

\* Faulty variant: the caller never passes its previous manifest in.
test_call_fresh(p) ==
  /\ pc[p] = "call"
  /\ Len(manifest[p].parcels) < MaxParcels
  /\ \E fs \in SeqsUpTo(TestDir \cup {FileOld}, MaxCallNames), ts \in CallStamps :
     \E listing \in (IF fs = <<>> THEN Listings(dir) ELSE {<<>>}) :
       LET r == make_manifest(dir, ts, fs, None, listing)
       IN IF r.err
          THEN /\ outcome' = [outcome EXCEPT ![p] = "ScanError"]
               /\ pc' = [pc EXCEPT ![p] = "end"]
               /\ UNCHANGED <<fnames, timestamp, manifest>>
          ELSE /\ fnames' = [fnames EXCEPT ![p] = fs]
               /\ timestamp' = [timestamp EXCEPT ![p] = ts]
               /\ manifest' = [manifest EXCEPT ![p] = loads(dumps(r.doc))]
               /\ UNCHANGED <<outcome, pc>>
  /\ UNCHANGED <<now, dir, namevars, lockvars, manifest_file, cmd, start_time, wake, snapshot>>

\* manifest_json = make_manifest(dir, timestamp=ts, files=fs, manifest=manifest);
\* manifest = json.loads(manifest_json). An exception ends the caller.
test_call(p) ==
  /\ pc[p] = "call"
  /\ Len(manifest[p].parcels) < MaxParcels
  /\ \E fs \in SeqsUpTo(TestDir \cup {FileOld}, MaxCallNames), ts \in CallStamps :
     \E listing \in (IF fs = <<>> THEN Listings(dir) ELSE {<<>>}) :
       LET r == make_manifest(dir, ts, fs, manifest[p], listing)
       IN IF r.err
          THEN /\ outcome' = [outcome EXCEPT ![p] = "ScanError"]
               /\ pc' = [pc EXCEPT ![p] = "end"]
               /\ UNCHANGED <<fnames, timestamp, manifest>>
          ELSE /\ fnames' = [fnames EXCEPT ![p] = fs]
               /\ timestamp' = [timestamp EXCEPT ![p] = ts]
               /\ manifest' = [manifest EXCEPT ![p] = loads(dumps(r.doc))]
               /\ UNCHANGED <<outcome, pc>>
  /\ UNCHANGED <<now, dir, namevars, lockvars, manifest_file, cmd, start_time, wake, snapshot>>

CallsInit ==
  /\ now = 0
  /\ dir = TestDir
  /\ lockfile = FALSE
  /\ owner = NoProc
  /\ manifest_file = Absent
  /\ pc = [p \in Procs |-> IF p = 1 THEN "call" ELSE "idle"]
  /\ cmd = [p \in Procs |-> "none"]
  /\ fnames = [p \in Procs |-> <<>>]
  /\ timestamp = [p \in Procs |-> 0]
  /\ start_time = [p \in Procs |-> 0]
  /\ wake = [p \in Procs |-> 0]
  /\ is_locked = [p \in Procs |-> FALSE]
  /\ fd = [p \in Procs |-> "None"]
  /\ manifest = [p \in Procs |-> None]
  /\ outcome = [p \in Procs |-> "running"]
  /\ snapshot = [p \in Procs |-> Absent]
  /\ parcel_name = ""
  /\ dirname = NoCall

CallsNext == \E p \in Procs : test_call(p)

SpecCalls == CallsInit /\ [][CallsNext]_vars

\* ------------------------------------------------------------ properties
Acquiring == {"open", "check", "sleep"}
Elapsed(p) == now - start_time[p]
HasJson(f) == Meta(f) = "json"
\* The entries of the scanned files that hold a parcel.json, in scan order.
NewEntries(scanned) ==
  LET kept == SelectSeq(scanned, HasJson) IN [i \in 1..Len(kept) |-> Entry(kept[i])]
\* The file sequences a call with the given names may scan.
Scans(fs) == IF fs = <<>> THEN Listings(dir) ELSE {fs}
\* Process p takes the step that writes manifest.json successfully.
Writes(p) == pc[p] = "write" /\ pc'[p] = "exit" /\ outcome'[p] = "ok"
\* Process p takes the step in which make_manifest returns.
Builds(p) == pc[p] = "build" /\ pc'[p] = "write"

\* C1: mutual exclusion. No two instances hold the lock at once, and an
\* instance that reported success holds it only while the marker file that its
\* own os.open created exists: nobody else can have succeeded meanwhile.
C1_MutualExclusion ==
  /\ \A p, q \in Procs : is_locked[p] /\ is_locked[q] => p = q
  /\ \A p \in Procs : is_locked[p] => lockfile /\ owner = p

\* C1 witness: q holds the lock after p held it and released it.
C1_Witness ==
  \E p, q \in Procs : p # q /\ fd[p] = "closed" /\ ~is_locked[p] /\ is_locked[q] /\ owner = q

\* C2: read-merge-write cycles do not interleave. When an update writes
\* manifest.json, the file is still what it was when that update created the
\* marker file, and what is written is that content's parcels followed by the
\* update's new entries; so the persisted parcels never shrink under an update.
C2_NoInterleaving ==
  [][\A p \in Procs : (Writes(p) /\ cmd[p] = "update") =>
        /\ snapshot[p].kind = "text"
        /\ manifest_file = snapshot[p]
        /\ manifest_file'.kind = "text"
        /\ \E sc \in Scans(fnames[p]) :
             manifest_file'.parcels = snapshot[p].parcels \o NewEntries(sc)
        /\ Len(manifest_file'.parcels) >= Len(manifest_file.parcels)]_vars

\* C2 witness: an update has appended to a manifest that another process wrote.
C2_Witness ==
  \E p, q \in Procs :
    /\ p # q
    /\ outcome[p] = "ok" /\ pc[p] = "end"
    /\ outcome[q] = "ok" /\ cmd[q] = "update" /\ pc[q] = "exit"
    /\ Len(manifest_file.parcels) >= 3

\* C3: scoped release. Once an operation that acquired the lock has left the
\* with block, normally or by an error raised inside it, it no longer holds the
\* lock and the marker file it created is gone.
C3_ReleasedOnEveryExit ==
  \A p \in Procs :
    (pc[p] \in {"del", "end"} /\ outcome[p] \notin {"FileLockException", "OSError"}) =>
      /\ fd[p] = "closed"
      /\ ~is_locked[p]
      /\ owner # p

\* C3 witness: one operation left the block by a scan error, another by a
\* failed write, and both have ended.
C3_Witness ==
  \E p, q \in Procs :
    /\ pc[p] = "end" /\ outcome[p] = "ScanError"
    /\ pc[q] = "end" /\ outcome[q] = "WriteError"

\* C4: append-only merge. make_manifest returns the k entries of the existing
\* manifest, unchanged and in order, followed by the n new entries of the scan
\* in scan order: k + n entries in all.
C4_AppendOnlyMerge ==
  [][\A p \in Procs : Builds(p) =>
        LET M == manifest[p].parcels
            R == manifest'[p].parcels
        IN \E sc \in Scans(fnames'[p]) :
             /\ Len(R) = Len(M) + Len(NewEntries(sc))
             /\ SubSeq(R, 1, Len(M)) = M
             /\ SubSeq(R, Len(M) + 1, Len(R)) = NewEntries(sc)]_vars

\* C4 witness: an existing manifest of two entries was merged with one new entry.
C4_Witness ==
  \E p \in Procs :
    /\ pc[p] = "write" /\ cmd[p] = "update"
    /\ fnames[p] = <<FileB>>
    /\ Len(manifest[p].parcels) = 3
    /\ manifest[p].parcels[3] = Entry(FileB)
    /\ manifest[p].parcels[1] # Entry(FileB)

C6_UpdateNeedsManifest ==
  [][\A p \in Procs :
        /\ (pc[p] = "body" /\ cmd'[p] = "update" /\ manifest_file.kind = "absent") =>
             /\ outcome'[p] = "ValueError"
             /\ pc'[p] = "exit"
        /\ (outcome'[p] = "ValueError" /\ pc'[p] # pc[p]) =>
             /\ pc[p] \in {"body", "exit", "del"}
             /\ pc'[p] \in {"exit", "del", "end"}
             /\ manifest[p] = None /\ fnames[p] = <<>>
             /\ manifest_file' = manifest_file
             /\ pc[p] \in {"body", "exit"} => manifest_file.kind = "absent"
             /\ pc'[p] \in {"del", "end"} => (~is_locked'[p] /\ owner' # p)]_vars

\* C6 witness: an update has ended with the error, no manifest.json, no marker file.
C6_Witness ==
  \E p \in Procs :
    /\ outcome[p] = "ValueError" /\ pc[p] = "end"
    /\ manifest_file.kind = "absent" /\ ~lockfile

\* C10 (as claimed): every entry an update appends is the entry of a file named
\* on its command line.
C10_OnlyNamedFilesScanned ==
  [][\A p \in Procs : (Builds(p) /\ cmd[p] = "update") =>
        \A i \in (Len(manifest[p].parcels) + 1)..Len(manifest'[p].parcels) :
          \E j \in 1..Len(fnames'[p]) :
            manifest'[p].parcels[i].parcelName = fnames'[p][j]]_vars

\* Instance p takes the step in which release() or __del__ runs.
ReleaseCall(p) ==
  \/ pc[p] = "release" /\ pc'[p] = "idle"
  \/ pc[p] = "del" /\ pc'[p] = "end"

\* C7: release() (also as called by __del__) on an instance that does not hold
\* the lock changes neither the marker file nor any instance's state; on an
\* instance that holds it, it removes the marker file and clears is_locked, so
\* that a second release() is again the first case.
C7_ReleaseIdempotent ==
  [][\A p \in Procs : ReleaseCall(p) =>
        IF is_locked[p]
        THEN /\ ~lockfile'
             /\ ~is_locked'[p]
             /\ fd'[p] = "closed"
             /\ \A q \in Procs \ {p} : is_locked'[q] = is_locked[q] /\ fd'[q] = fd[q]
        ELSE UNCHANGED lockvars]_vars

\* C7 witness: p never acquired (it timed out), its lock object has been
\* destroyed, and q still holds the marker file.
C7_Witness ==
  \E p, q \in Procs :
    /\ p # q
    /\ pc[p] = "end" /\ fd[p] = "None" /\ outcome[p] = "FileLockException"
    /\ is_locked[q] /\ lockfile /\ owner = q

\* C8: the marker file is removed only in a step of the instance whose os.open
\* created it, while that instance runs release(), __exit__ or __del__ holding
\* the lock; no other instance takes part in the step.
C8_OnlyCreatorRemoves ==
  [][(lockfile /\ ~lockfile') =>
        /\ owner \in Procs
        /\ is_locked[owner] /\ ~is_locked'[owner]
        /\ pc[owner] \in {"release", "exit", "del"} /\ pc'[owner] # pc[owner]
        /\ \A q \in Procs \ {owner} :
             pc'[q] = pc[q] /\ fd'[q] = fd[q] /\ is_locked'[q] = is_locked[q]]_vars

\* C8 witness: q, which never held the lock, timed out and then called
\* release(), and the marker file that p created is still there.
C8_Witness ==
  \E p, q \in Procs :
    /\ p # q
    /\ lockfile /\ owner = p /\ is_locked[p]
    /\ pc[q] = "idle" /\ fd[q] = "None" /\ outcome[q] = "FileLockException"

\* A process died holding the lock: its marker file is still there.
CrashedHolder == \E p \in Procs : pc[p] = "crashed" /\ lockfile /\ owner = p

C11_LastUpdatedNeverDecreases ==
  [][\A p \in Procs : (Writes(p) /\ manifest_file.kind = "text") =>
        manifest_file'.lastUpdated >= manifest_file.lastUpdated]_vars

\* C12: timestamp precision. The lastUpdated that make_manifest returns is the
\* supplied timestamp times 1000 with its fraction cut off (toward zero), for a
\* whole number of seconds t exactly 1000 * t, whatever the lastUpdated of the
\* manifest passed in.
C12_TimestampTruncated ==
  [][\A p \in Procs : Builds(p) =>
        LET L == manifest'[p].lastUpdated
            t == timestamp[p]
        IN /\ t >= 0 => (L >= 0 /\ L * TicksPerMs <= t /\ t < (L + 1) * TicksPerMs)
           /\ t <= 0 => (L <= 0 /\ L * TicksPerMs >= t /\ t > (L - 1) * TicksPerMs)
           /\ \A k \in 0..1 : t = Seconds(k) => L = 1000 * k]_vars

\* C12 witness: a timestamp of minus three ticks (a fraction of a millisecond
\* below a whole one) gave lastUpdated -1 over a manifest that carried 1000.
C12_Witness ==
  \E p \in Procs :
    /\ pc[p] = "write" /\ cmd[p] = "update"
    /\ timestamp[p] = -3
    /\ manifest[p].lastUpdated = -1
    /\ manifest_file.lastUpdated = 1000

\* The caller's make_manifest call returns.
Calls(p) == pc[p] = "call" /\ pc'[p] = "call"
\* The update scenario: the manifest built from file A at timestamp 0 is passed
\* in to a call with files B and C at timestamp 1000000.
UpdateScenario(p) ==
  /\ Calls(p)
  /\ manifest[p] = Dict(<<Entry(FileA)>>, 0)
  /\ fnames'[p] = <<FileB, FileC>>
  /\ timestamp'[p] = Seconds(1000000)

\* C13 (as claimed): the update scenario yields the entries A, B, C in that
\* order and lastUpdated 1000000.
C13_UpdateScenarioAsClaimed ==
  [][\A p \in Procs : UpdateScenario(p) =>
        /\ manifest'[p].parcels = <<Entry(FileA), Entry(FileB), Entry(FileC)>>
        /\ manifest'[p].lastUpdated = 1000000]_vars

\* C13 (amended): the update scenario yields the entries A, B, C in that order
\* and lastUpdated 1000000000, the timestamp times 1000.
C13_UpdateScenario ==
  [][\A p \in Procs : UpdateScenario(p) =>
        /\ manifest'[p].parcels = <<Entry(FileA), Entry(FileB), Entry(FileC)>>
        /\ manifest'[p].lastUpdated = 1000000000]_vars

\* C13 witness: the caller holds the manifest of the scenario's second call.
C13_Witness ==
  \E p \in Procs :
    /\ pc[p] = "call"
    /\ fnames[p] = <<FileB, FileC>> /\ timestamp[p] = Seconds(1000000)
    /\ manifest[p] = Dict(<<Entry(FileA), Entry(FileB), Entry(FileC)>>, 1000000000)

\* C14: skip without abort, order preserved. The entries a call with a sequence
\* of names appends are, in the order of the names, one entry for each name
\* whose archive holds a parsable parcel.json: there is a strictly increasing
\* map from the appended entries onto exactly those positions of the sequence. A name without
\* parcel.json, or with one that is not JSON, has no entry, and the names after
\* it are still scanned.
C14_SkipKeepsOrder ==
  [][\A p \in Procs : (Calls(p) /\ fnames'[p] # <<>>) =>
        LET k == Len(manifest[p].parcels)
            n == Len(manifest'[p].parcels) - k
            E == [i \in 1..n |-> manifest'[p].parcels[k + i]]
            sc == fnames'[p]
        IN \E f \in [1..n -> 1..Len(sc)] :
           /\ \A i, j \in 1..n : i < j => f[i] < f[j]
           /\ {f[i] : i \in 1..n} = {j \in 1..Len(sc) : Meta(sc[j]) = "json"}
           /\ \A i \in 1..n : E[i] = Entry(sc[f[i]])]_vars

\* C14 witness: the names were J (parcel.json is not JSON) and then A, passed
\* in with the manifest that lists B; the call appended the entry of A alone.
C14_Witness ==
  \E p \in Procs :
    /\ pc[p] = "call"
    /\ fnames[p] = <<FileJ, FileA>>
    /\ manifest[p].parcels = <<Entry(FileB), Entry(FileA)>>

\* C15: create starts from an empty manifest. What a successful create writes
\* is exactly the entries of the files it scanned (the named files, or the
\* directory's .parcel files if none was named), whatever manifest.json held
\* before: an earlier entry is there only if its file was scanned again.
C15_CreateStartsEmpty ==
  [][\A p \in Procs : (Writes(p) /\ cmd[p] = "create") =>
        /\ manifest_file'.kind = "text"
        /\ \E sc \in Scans(fnames[p]) :
             /\ Len(manifest_file'.parcels) = Len(SelectSeq(sc, HasJson))
             /\ \A i \in 1..Len(manifest_file'.parcels) :
                  manifest_file'.parcels[i] = Entry(SelectSeq(sc, HasJson)[i])]_vars

\* C15 witness: a create has written the entry of A alone over the manifest
\* that another operation had written before it.
C15_Witness ==
  \E p, q \in Procs :
    /\ p # q
    /\ pc[q] = "end" /\ outcome[q] = "ok"
    /\ pc[p] = "exit" /\ cmd[p] = "create" /\ outcome[p] = "ok" /\ is_locked[p]
    /\ manifest_file.parcels = <<Entry(FileA)>>

\* C16: the manifest file is written only after the whole scan. While an
\* operation is in its with block and has not started its write, manifest.json
\* is what it was when the operation took the lock; an error raised while the
\* existing manifest is loaded or a file is scanned leaves it so; and the file
\* changes only in the write step that follows a finished scan.
C16_WriteOnlyAfterScan ==
  /\ [](\A p \in Procs :
          (is_locked[p] /\ pc[p] \in {"body", "build", "write"}) => manifest_file = snapshot[p])
  /\ [][/\ \A p \in Procs :
            (pc[p] \in {"body", "build"} /\ pc'[p] # pc[p]) =>
              /\ manifest_file' = manifest_file
              /\ outcome'[p] \in {"ValueError", "LoadError", "ScanError"} =>
                   (pc'[p] = "exit" /\ manifest'[p] = None)
        /\ manifest_file' # manifest_file =>
             \E p \in Procs : pc[p] = "write" /\ pc'[p] = "exit" /\ manifest[p].kind = "text"]_vars

\* C16 witness: an operation's scan failed, the operation has ended, and
\* manifest.json still holds the manifest it held at the start.
C16_Witness ==
  \E p \in Procs :
    /\ pc[p] = "end" /\ outcome[p] = "ScanError"
    /\ manifest_file = dumps(Dict(<<Entry(FileOld)>>, 0))

\* Instance p's acquire() ends in this step with the lock held: its os.open
\* created the marker file.
AcquireSucceeds(p) ==
  /\ pc[p] = "open" /\ pc'[p] = "body"
  /\ ~lockfile /\ lockfile' /\ owner' = p /\ is_locked'[p]
\* Instance p's acquire() ends in this step with the lock-timeout error: at the
\* timeout test that follows an attempt that found the marker file ("check" is
\* entered only from such an attempt), with the timeout elapsed.
AcquireTimesOut(p) ==
  /\ pc[p] = "check" /\ pc'[p] = "del"
  /\ outcome'[p] = "FileLockException"
  /\ Elapsed(p) >= Timeout
  /\ UNCHANGED lockvars
\* Between two attempts: after an attempt that found the marker file and no
\* timeout, the call sleeps, and the next attempt comes no sooner than the poll
\* interval later.
AcquireSleeps(p) ==
  /\ (pc[p] = "check" /\ pc'[p] # "check" /\ Elapsed(p) < Timeout) =>
       (pc'[p] = "sleep" /\ wake'[p] = now + Delay)
  /\ (pc[p] = "sleep" /\ pc'[p] # "sleep") => (pc'[p] = "open" /\ now >= wake[p])
  /\ (pc[p] = "open" /\ pc'[p] \in Acquiring \ {"open"}) => (pc'[p] = "check" /\ lockfile)
  /\ (pc'[p] = "open" /\ pc[p] \in Acquiring) => pc[p] \in {"open", "sleep"}
\* Every acquire() that is running ends.
AcquireEnds == \A p \in Procs : (pc[p] \in Acquiring) ~> (pc[p] \notin Acquiring)

C18_DirnameDropsLastSegment ==
  (dirname # NoCall /\ Cardinality(Hyphens(parcel_name)) >= 2) =>
    /\ dirname.state = "returned"
    /\ \E k \in 0..Len(parcel_name) :
         LET platform == SubSeq(parcel_name, Len(parcel_name) - k + 1, Len(parcel_name))
         IN /\ Hyphens(platform) = {}
            /\ dirname.value \o "-" \o platform = parcel_name

\* C18 witness: a name of four segments; the first three are kept.
C18_Witness ==
  parcel_name = "a-b-a-b" /\ dirname = Returned("a-b-a")

\* A scan of the names fs reaches a name with fewer than two hyphens: every name
\* before it is a file of the directory.
ReachesBadName(fs) ==
  \E sc \in Scans(fs) : \E i \in 1..Len(sc) :
    /\ Cardinality(Hyphens(sc[i])) < 2
    /\ \A j \in 1..i : sc[j] \in dir

\* C19: a name with fewer than two hyphens is not skipped. When the scan of an
\* operation reaches such a name, make_manifest raises: no entries come back
\* (not those of the files scanned before it either), the with block is left
\* by the error, no step of the operation writes manifest.json, and after
\* __exit__ the operation holds no lock and its marker file is gone.
C19_BadNameAbortsScan ==
  [][\A p \in Procs :
        /\ (pc[p] = "build" /\ pc'[p] \notin {"build", "crashed"} /\ ReachesBadName(fnames'[p])) =>
             /\ outcome'[p] = "ScanError" /\ pc'[p] = "exit"
             /\ manifest'[p] = None
             /\ manifest_file' = manifest_file
        /\ (outcome'[p] = "ScanError" /\ pc'[p] # pc[p]) =>
             /\ manifest_file' = manifest_file
             /\ pc'[p] \in {"exit", "del", "end", "crashed"}
             /\ pc'[p] \in {"del", "end"} => (~is_locked'[p] /\ owner' # p)]_vars

\* C19 witness: one scan that reached X has failed, the operation has left the
\* block and ended, with the lock released; a scan of the name X alone has
\* failed in another operation; manifest.json is as it was at the start.
C19_Witness ==
  \E p, q \in Procs :
    /\ p # q
    /\ pc[p] = "end" /\ outcome[p] = "ScanError"
    /\ pc[q] = "exit" /\ outcome[q] = "ScanError" /\ fnames[q] = <<FileX>>
    /\ manifest_file = dumps(Dict(<<Entry(FileOld)>>, 0))

====
